---- MODULE Spec2Model ----
(***************************************************************************)
(* RecodeX job orchestration: the per-folder MediaFileHandler with its     *)
(* dedup sets, the FileMonitor queue and completion feedback, and the      *)
(* TranscodeWorker loop that persists TranscodeRecords.                    *)
(*                                                                         *)
(* Every action is one stretch of code between two suspension points of    *)
(* the asyncio event loop (an await that really yields).  Awaiting a       *)
(* coroutine that never suspends (_is_already_processed,                   *)
(* needs_transcoding, Queue.put on an unbounded queue) does not yield and  *)
(* is part of the surrounding action.                                      *)
(***************************************************************************)
EXTENDS Integers, Sequences, FiniteSets, Bags, TLC

None == "None"

\* None where the value is otherwise a number, a directory, a profile
NoSize == -1
NoDir == << >>
NoProfile == [name |-> None, container |-> None, hardware_accel |-> FALSE]

(***************************************************************************)
(* Bounds of the exploration.                                              *)
(***************************************************************************)
NumWorkers == 2
MaxTasks == 2
MaxJobs == 2
MaxRecords == 3
MaxFaults == 2

(***************************************************************************)
(* Paths.  A path is [dir, stem, sfx, ext]: dir is the sequence of         *)
(* directory components, stem the file name without the profile suffixes,  *)
(* sfx the sequence of "_<profile name>" suffixes of the stem, ext the     *)
(* suffix with its dot.  In sfx, "tmp" stands for the ".tmp" that a        *)
(* temporary output carries before its extension.                          *)
(***************************************************************************)
MkPath(d, s, x, e) == [dir |-> d, stem |-> s, sfx |-> x, ext |-> e]

FileX == MkPath(<<"a">>, "x", <<>>, ".mp4")
FileY == MkPath(<<"a", "b">>, "y", <<>>, ".MP4")
FileN == MkPath(<<"a">>, "n", <<>>, ".txt")
FileGone == MkPath(<<"a">>, "gone", <<>>, ".mp4")

Files == {FileX, FileY, FileN}

\* str.lower() on a suffix
Lower(e) == IF e = ".MP4" THEN ".mp4" ELSE e

\* "." + container
DotExt(container) == IF container = "mp4" THEN ".mp4" ELSE ".mkv"

\* d in p.parents or d == p.parent
IsParentOf(d, p) ==
    /\ Len(d) <= Len(p.dir)
    /\ SubSeq(p.dir, 1, Len(d)) = d

(***************************************************************************)
(* Configuration.                                                          *)
(***************************************************************************)
Profiles ==
    [balanced |-> [name |-> "Balanced", container |-> "mp4", hardware_accel |-> TRUE]]

ProfileRefs == {"balanced", "ghost"}

\* dict.get(key)
ProfilesGet(key) == IF key \in DOMAIN Profiles THEN Profiles[key] ELSE NoProfile

MediaExtensions == {".mp4", ".mkv", ".avi", ".mov", ".wmv", ".flv", ".m4v", ".webm"}

WatchFolder(path, profile, recursive, delete_original) ==
    [path |-> path, profile |-> profile, recursive |-> recursive,
     extensions |-> MediaExtensions, output_path |-> NoDir,
     delete_original |-> delete_original]

\* the configured watch folders: /a, and /a/b nested inside it
WatchFolders(c) ==
    << WatchFolder(<<"a">>, "balanced", FALSE, FALSE),
       WatchFolder(<<"a", "b">>, c.profile2, TRUE, TRUE) >>

Configs == [profile2 : ProfileRefs, dry_run : BOOLEAN]


(***************************************************************************)
(* State.                                                                  *)
(***************************************************************************)
VARIABLES
    config,            \* RecodeXConfig the service was constructed with
    fs,                \* the paths that exist on disk
    handlers,          \* FileMonitor.handlers: watch folder index of each handler
    monitor_running,   \* FileMonitor.running
    scan,              \* position of FileMonitor._scan_existing_files
    processed_files,   \* MediaFileHandler.processed_files, per handler
    processing_files,  \* MediaFileHandler.processing_files, per handler
    tasks,             \* the live _process_new_file tasks made by on_created / on_moved
    job_queue,         \* FileMonitor.job_queue
    jobs,              \* every job dict ever built, in order of construction
    hist,              \* per job dict: what has been done with it
    workers_running,   \* WorkerManager.running
    wpc,               \* per worker: position in start() / _process_job()
    wjob,              \* per worker: job_data
    wrec,              \* per worker: record.id
    current_job,       \* per worker: TranscodeWorker.current_job
    success,           \* per worker: the local variable success
    records,           \* table transcode_records, by id
    response,          \* what the last call on the store returned or raised
    wait,              \* the frame of a _wait_for_file_ready call
    lookup,            \* a profile reference and what its lookup returned
    callback,          \* what the last on_created / on_moved call did
    store_faults,      \* how many more operations of the store will raise
    wrun,              \* per worker: TranscodeWorker.running
    wtask,             \* per worker: the asyncio task running start()
    polled,            \* per worker: its last get_job returned None
    exc,               \* per worker: the exception _process_job has caught
    svc,               \* position of RecodeXService.stop
    manual,            \* the last add_manual_job call and what it returned or raised
    stats,             \* what the last calls on Statistics returned
    engine             \* a TranscodeEngine.transcode call on a disk with contents

vars == << config, fs, handlers, monitor_running, scan, processed_files,
           processing_files, tasks, job_queue, jobs,
           hist, workers_running, wpc, wjob, wrec, current_job, success,
           records, response, wait, lookup, callback, store_faults, wrun,
           wtask, polled, exc, svc, manual, stats, engine >>

\* the state the steps of the watcher and of the workers leave alone
\* the event bridge, the faults of the store and the shutdown of the service
\* the calls observed one at a time
units == << manual, stats, engine >>

life == << callback, store_faults, wrun, wtask, polled, exc, svc, units >>

aux == << response, wait, lookup, life >>

\* what no step of a worker touches
bridge == << response, wait, lookup, callback, units >>

Workers == 1 .. NumWorkers
HandlerIds == 1 .. 2

Folder(h) == WatchFolders(config)[h]

(***************************************************************************)
(* MediaFileHandler.                                                       *)
(***************************************************************************)
\* MediaFileHandler._is_media_file
IsMediaFile(wf, p) == Lower(p.ext) \in wf.extensions

\* the paths an observer scheduled on wf reports, and the glob of the scan
InScope(wf, p) ==
    IF wf.recursive THEN IsParentOf(wf.path, p) ELSE p.dir = wf.path

\* the stem with the profile suffix appended if not already present
SuffixedStem(sfx, profile) ==
    IF Len(sfx) > 0 /\ sfx[Len(sfx)] = profile.name
    THEN sfx ELSE Append(sfx, profile.name)

\* MediaFileHandler._get_output_path
GetOutputPath(wf, p, profile) ==
    MkPath(IF wf.output_path # NoDir THEN wf.output_path ELSE p.dir,
           p.stem, SuffixedStem(p.sfx, profile), DotExt(profile.container))

\* mutant of IsAlreadyProcessed: the output location is not looked at
IsAlreadyProcessed_Never(wf, p, disk) == FALSE

\* MediaFileHandler._is_already_processed
IsAlreadyProcessed(wf, p, disk) ==
    \E k \in DOMAIN Profiles : GetOutputPath(wf, p, Profiles[k]) \in disk

\* the dedup test that opens _process_new_file
PassesDedup(h, p, done, doing) ==
    /\ IsMediaFile(Folder(h), p)
    /\ p \notin done[h]
    /\ p \notin doing[h]

NewJob(p, out, profile, wf) ==
    [input_path |-> p, output_path |-> out, profile |-> profile, watch_folder |-> wf]

NewHist ==
    [dequeues |-> 0, engine_ok |-> FALSE, notified |-> {}, deleted |-> FALSE]

\* mutant of QueuePut: the job is put at the front of the queue
QueuePut_Front(q, j) == << j >> \o q

\* Queue.put
QueuePut(q, j) == Append(q, j)

\* what ffprobe tells needs_transcoding about the file: a codec or bitrate
\* the profile wants changed, nothing to change, or an error
Probes == {"differs", "matches", "error"}

\* mutant of NeedsTranscoding: a probe that fails counts as a need
NeedsTranscoding_UnlessMatches(probe) == probe # "matches"

\* MediaInfo.needs_transcoding: an exception is swallowed and answers False
NeedsTranscoding(probe) == probe = "differs"

\* mutant of AddInFlight: the path is not marked before the job is built
AddInFlight_Skip(doing, h, p) == doing

\* self.processing_files.add(file_path)
AddInFlight(doing, h, p) == [doing EXCEPT ![h] = @ \cup {p}]

\* _process_new_file from the return of _wait_for_file_ready to its end,
\* given what ffprobe would tell
FinishNewFileWith(h, p, probe) ==
    LET wf == Folder(h)
        profile == ProfilesGet(wf.profile)
    IN  IF IsAlreadyProcessed(wf, p, fs)
        THEN /\ processed_files' = [processed_files EXCEPT ![h] = @ \cup {p}]
             /\ UNCHANGED << processing_files, job_queue, jobs, hist >>
        ELSE IF profile = NoProfile
        THEN /\ processing_files' = AddInFlight(processing_files, h, p)
             /\ UNCHANGED << processed_files, job_queue, jobs, hist >>
        ELSE IF ~NeedsTranscoding(probe)
        THEN /\ processed_files' = [processed_files EXCEPT ![h] = @ \cup {p}]
             /\ processing_files' = [AddInFlight(processing_files, h, p)
                                         EXCEPT ![h] = @ \ {p}]
             /\ UNCHANGED << job_queue, jobs, hist >>
        ELSE /\ Len(jobs) < MaxJobs
             /\ processing_files' = AddInFlight(processing_files, h, p)
             /\ jobs' = Append(jobs, NewJob(p, GetOutputPath(wf, p, profile), profile, h))
             /\ hist' = Append(hist, NewHist)
             /\ job_queue' = QueuePut(job_queue, Len(jobs'))
             /\ UNCHANGED processed_files

\* _process_new_file from the return of _wait_for_file_ready to its end
FinishNewFile(h, p) == \E probe \in Probes : FinishNewFileWith(h, p, probe)

(***************************************************************************)
(* FileMonitor: start and the scan of the existing files.                  *)
(***************************************************************************)
\* the order in which Path.glob yields the files
GlobOrder == << FileX, FileN, FileY >>

\* the (handler, path) pairs _scan_existing_files walks through
ScanList ==
    LET Of(h) == SelectSeq(GlobOrder, LAMBDA p : InScope(Folder(h), p))
        Pair(h) == [i \in 1 .. Len(Of(h)) |-> << h, Of(h)[i] >>]
    IN  Pair(1) \o Pair(2)

\* The scan from entry i on, up to the first _process_new_file call that
\* suspends in _wait_for_file_ready: entries that are no file, no media file
\* or known to the dedup sets return without suspending.
RECURSIVE ScanFrom(_, _, _)
ScanFrom(i, done, doing) ==
    IF i > Len(ScanList) THEN [state |-> "done", idx |-> 0]
    ELSE LET h == ScanList[i][1]
             p == ScanList[i][2]
         IN  IF p \in fs /\ PassesDedup(h, p, done, doing)
             THEN [state |-> "waiting", idx |-> i]
             ELSE ScanFrom(i + 1, done, doing)

\* FileMonitor.start up to the first suspension of the scan
StartMonitor ==
    /\ ~monitor_running
    /\ scan.state = "idle"
    /\ handlers' = << 1, 2 >>
    /\ scan' = ScanFrom(1, processed_files, processing_files)
    /\ monitor_running' = (scan'.state = "done")
    /\ UNCHANGED << aux, config, fs, processed_files, processing_files, tasks,
                    job_queue, jobs, hist, workers_running, wpc, wjob, wrec,
                    current_job, success, records >>

\* _scan_existing_files from the return of one _wait_for_file_ready to the next
ScanStep ==
    /\ scan.state = "waiting"
    /\ FinishNewFile(ScanList[scan.idx][1], ScanList[scan.idx][2])
    /\ scan' = ScanFrom(scan.idx + 1, processed_files', processing_files')
    /\ monitor_running' = (scan'.state = "done")
    /\ UNCHANGED << aux, config, fs, handlers, tasks, workers_running, wpc, wjob,
                    wrec, current_job, success, records >>

\* callback before any event has been delivered
NoCallback ==
    [name |-> None, ctx |-> None, is_directory |-> FALSE, raised |-> FALSE,
     threadsafe |-> FALSE, done_callback |-> FALSE]

\* what on_created / on_moved do with an event in context ctx: a file event
\* goes to asyncio.create_task, which raises RuntimeError in a thread that
\* runs no event loop; nothing is submitted through
\* run_coroutine_threadsafe and no done callback is added
CallbackOutcome(name, event, ctx) ==
    [name |-> name, ctx |-> ctx, is_directory |-> event.is_directory,
     raised |-> (~event.is_directory /\ ctx = "thread"),
     threadsafe |-> FALSE, done_callback |-> FALSE]

\* the workers, the event bridge and the shutdown after construction
Constructed ==
    /\ callback = NoCallback
    /\ wrun = [w \in Workers |-> FALSE]
    /\ wtask = [w \in Workers |-> "none"]
    /\ polled = [w \in Workers |-> FALSE]
    /\ exc = [w \in Workers |-> None]
    /\ svc = "idle"

(***************************************************************************)
(* Filesystem events.  ctx is the context the callback runs in: "thread"   *)
(* is a thread without a running event loop (the observer's), "loop" the   *)
(* event loop's thread.  tasks is the bag of the _process_new_file tasks   *)
(* suspended in _wait_for_file_ready.  A new task runs its first stretch   *)
(* (the extension and dedup tests) at the next iteration of the loop and   *)
(* nothing can observe it before: the event action is placed where that    *)
(* stretch runs.                                                           *)
(***************************************************************************)
Contexts == {"thread", "loop"}

DirB == MkPath(<<"a">>, "b", <<>>, "")

\* the events an observer scheduled on the folder of handler h delivers
Events(h) ==
    {[is_directory |-> FALSE, path |-> p] : p \in {q \in fs : InScope(Folder(h), q)}}
    \cup {[is_directory |-> TRUE, path |-> p] : p \in {q \in {DirB} : InScope(Folder(h), q)}}

Task(h, p) == [h |-> h, p |-> p]

\* asyncio.create_task(self._process_new_file(file_path)), and the task's
\* stretch up to _wait_for_file_ready
CreateTask(h, p, ctx) ==
    IF ctx = "loop"
    THEN IF PassesDedup(h, p, processed_files, processing_files)
         THEN /\ BagCardinality(tasks) < MaxTasks
              /\ tasks' = tasks (+) SetToBag({Task(h, p)})
         ELSE UNCHANGED tasks
    ELSE \* RuntimeError (no running event loop): the coroutine never runs
         UNCHANGED tasks

\* the body of on_created / on_moved for an event of handler h
Dispatch(h, event, ctx) ==
    /\ h \in 1 .. Len(handlers)
    /\ IF ~event.is_directory
       THEN CreateTask(h, event.path, ctx)
       ELSE UNCHANGED tasks
    /\ UNCHANGED << config, fs, handlers, monitor_running, scan,
                    processed_files, processing_files, job_queue, jobs, hist,
                    workers_running, wpc, wjob, wrec, current_job, success,
                    records >>

HandleEvent(h, event, ctx) == Dispatch(h, event, ctx) /\ UNCHANGED aux

\* MediaFileHandler.on_created, file_path = Path(event.src_path)
OnCreated ==
    \E h \in HandlerIds, ctx \in Contexts :
        \E event \in Events(h) : HandleEvent(h, event, ctx)

\* MediaFileHandler.on_moved, file_path = Path(event.dest_path)
OnMoved ==
    \E h \in HandlerIds, ctx \in Contexts :
        \E event \in Events(h) : HandleEvent(h, event, ctx)

\* _process_new_file of a task, after _wait_for_file_ready
TaskFinish ==
    \E t \in BagToSet(tasks) :
        /\ FinishNewFile(t.h, t.p)
        /\ tasks' = tasks (-) SetToBag({t})
        /\ UNCHANGED << aux, config, fs, handlers, monitor_running, scan,
                        workers_running, wpc, wjob, wrec, current_job, success,
                        records >>

(***************************************************************************)
(* DatabaseManager and TranscodeRecord.                                    *)
(***************************************************************************)
Now == "t"

\* TranscodeRecord(...) as _process_job builds it, with the column defaults;
\* job is not a column: it names the job dict the record was built from
NewRecord(j) ==
    [input_path |-> jobs[j].input_path,
     output_path |-> jobs[j].output_path,
     profile_name |-> jobs[j].profile.name,
     status |-> "pending",
     created_at |-> Now,
     started_at |-> None,
     completed_at |-> None,
     error_message |-> None,
     original_size |-> NoSize,
     final_size |-> NoSize,
     processing_time |-> None,
     hardware_accel_used |-> FALSE,
     job |-> j]

\* mutant of AddRecord: the row takes the primary key of the latest row
AddRecord_Overwrite(recs, r) ==
    IF recs = << >> THEN << r >> ELSE [recs EXCEPT ![Len(recs)] = r]

\* DatabaseManager.add_record: the id is the next primary key
AddRecord(recs, r) == Append(recs, r)

\* mutant of UpdateRecord: the update is not committed
UpdateRecord_Lost(recs, id, updates) == recs

\* DatabaseManager.update_record
UpdateRecord(recs, id, updates) ==
    IF id \in DOMAIN recs
    THEN [recs EXCEPT ![id] =
            [k \in DOMAIN @ |-> IF k \in DOMAIN updates THEN updates[k] ELSE @[k]]]
    ELSE recs

(***************************************************************************)
(* TranscodeJob and TranscodeEngine.                                       *)
(***************************************************************************)
\* st_size of a file
SizeOf(p) == IF p = FileX THEN 4 ELSE IF Len(p.sfx) > 0 THEN 1 ELSE 2


\* TranscodeJob.__init__
NewTranscodeJob ==
    [status |-> "pending", error_message |-> None, start_time |-> None,
     end_time |-> None, original_size |-> NoSize, final_size |-> NoSize]

\* current_job = None
NoTranscodeJob ==
    [status |-> None, error_message |-> None, start_time |-> None,
     end_time |-> None, original_size |-> NoSize, final_size |-> NoSize]

\* TranscodeJob.get_duration
GetDuration(cj) ==
    IF cj.start_time # None /\ cj.end_time # None THEN "d" ELSE None

(***************************************************************************)
(* FileMonitor: queue and completion feedback.                             *)
(***************************************************************************)
\* mutant of QueueGet: the job is handed out and stays queued
QueueGet_Peek(q) == q

\* what Queue.get leaves in the queue
QueueGet(q) == Tail(q)

\* the handler mark_job_processed picks: the first whose folder is a parent
MatchingHandler(p) ==
    LET S == {i \in 1 .. Len(handlers) : IsParentOf(Folder(handlers[i]).path, p)}
    IN  IF S = {} THEN 0
        ELSE handlers[CHOOSE i \in S : \A k \in S : i <= k]

\* mutant of ShouldDelete: delete_original is not consulted
ShouldDelete_AnyFolder(wf, p, disk) == p \in disk

\* watch_folder.delete_original and input_path.exists()
ShouldDelete(wf, p, disk) == wf.delete_original /\ p \in disk

(***************************************************************************)
(* TranscodeWorker.                                                        *)
(***************************************************************************)
\* the task of worker w has not been cancelled
Alive(w) == wtask[w] = "live"

\* while self.running: where the worker goes when it is back at the loop test
LoopTest(w) == IF wrun[w] THEN "idle" ELSE "ended"

\* mutant of AfterFault: an exception that reaches start() ends the loop
AfterFault_Ends == "ended"

\* start(): except Exception, the error is logged and the worker sleeps
AfterFault == "backoff"

\* what str(e) is for an exception of the store
StoreError == "OperationalError"

\* whether the operation of the store at hand raises
Raises == {f \in BOOLEAN : f => store_faults > 0}

\* WorkerManager.start, called by RecodeXService.start after FileMonitor.start,
\* and the first stretch of each worker task: self.running = True
StartWorkers ==
    /\ monitor_running
    /\ ~workers_running
    /\ svc = "idle"
    /\ workers_running' = TRUE
    /\ wrun' = [w \in Workers |-> TRUE]
    /\ wtask' = [w \in Workers |-> "live"]
    /\ UNCHANGED << bridge, store_faults, polled, exc, svc, config, fs, handlers,
                    monitor_running, scan, processed_files, processing_files,
                    tasks, job_queue, jobs, hist, wpc, wjob, wrec, current_job,
                    success, records >>

\* FileMonitor.get_job returning a job to worker w
GetJob(w) ==
    /\ workers_running
    /\ Alive(w)
    /\ wpc[w] = "idle"
    /\ job_queue # << >>
    /\ wjob' = [wjob EXCEPT ![w] = Head(job_queue)]
    /\ job_queue' = QueueGet(job_queue)
    /\ hist' = [hist EXCEPT ![Head(job_queue)].dequeues = @ + 1]
    /\ wpc' = [wpc EXCEPT ![w] = "add"]
    /\ polled' = [polled EXCEPT ![w] = FALSE]
    /\ UNCHANGED << bridge, store_faults, wrun, wtask, exc, svc, config, fs,
                    handlers, monitor_running, scan, processed_files,
                    processing_files, tasks, jobs, workers_running, wrec,
                    current_job, success, records >>

\* FileMonitor.get_job timing out on the empty queue: None, and the worker
\* is back at the loop test
EmptyPoll(w) ==
    /\ workers_running
    /\ Alive(w)
    /\ wpc[w] = "idle"
    /\ job_queue = << >>
    /\ polled' = [polled EXCEPT ![w] = TRUE]
    /\ wpc' = [wpc EXCEPT ![w] = LoopTest(w)]
    /\ UNCHANGED << bridge, store_faults, wrun, wtask, exc, svc, config, fs,
                    handlers, monitor_running, scan, processed_files,
                    processing_files, tasks, job_queue, jobs, hist,
                    workers_running, wjob, wrec, current_job, success, records >>

\* _process_job: the record is built and add_record commits it, or raises
\* to the loop of start()
ProcessJobAdd(w) ==
    /\ wpc[w] = "add"
    /\ Alive(w)
    /\ \E raises \in Raises :
        IF raises
        THEN /\ store_faults' = store_faults - 1
             /\ wpc' = [wpc EXCEPT ![w] = AfterFault]
             /\ wjob' = [wjob EXCEPT ![w] = 0]
             /\ UNCHANGED << records, wrec >>
        ELSE /\ records' = AddRecord(records, NewRecord(wjob[w]))
             /\ wrec' = [wrec EXCEPT ![w] = Len(records')]
             /\ wpc' = [wpc EXCEPT ![w] = "run"]
             /\ UNCHANGED << store_faults, wjob >>
    /\ UNCHANGED << bridge, wrun, wtask, polled, exc, svc, config, fs, handlers,
                    monitor_running, scan, processed_files, processing_files,
                    tasks, job_queue, jobs, hist, workers_running, current_job,
                    success >>

\* mutant of RunningUpdates: the status is left as it was
RunningUpdates_StillPending == [status |-> "pending", started_at |-> Now]

\* the columns _process_job updates before it starts the work
RunningUpdates == [status |-> "running", started_at |-> Now]

\* _process_job: current_job is built and update_record commits "running",
\* or raises into the except clause
ProcessJobRun(w) ==
    /\ wpc[w] = "run"
    /\ Alive(w)
    /\ current_job' = [current_job EXCEPT ![w] = NewTranscodeJob]
    /\ \E raises \in Raises :
        IF raises
        THEN /\ store_faults' = store_faults - 1
             /\ exc' = [exc EXCEPT ![w] = StoreError]
             /\ wpc' = [wpc EXCEPT ![w] = "except"]
             /\ UNCHANGED records
        ELSE /\ records' = UpdateRecord(records, wrec[w], RunningUpdates)
             /\ wpc' = [wpc EXCEPT ![w] = IF config.dry_run THEN "dry" ELSE "engine"]
             /\ UNCHANGED << store_faults, exc >>
    /\ UNCHANGED << bridge, wrun, wtask, polled, svc, config, fs, handlers,
                    monitor_running, scan, processed_files, processing_files,
                    tasks, job_queue, jobs, hist, workers_running, wjob, wrec,
                    success >>

\* _process_job in dry run mode: the sleep is over, success = True
ProcessJobDry(w) ==
    /\ wpc[w] = "dry"
    /\ Alive(w)
    /\ success' = [success EXCEPT ![w] = TRUE]
    /\ wpc' = [wpc EXCEPT ![w] = "result"]
    /\ UNCHANGED << aux, config, fs, handlers, monitor_running, scan,
                    processed_files, processing_files, tasks, job_queue, jobs,
                    hist, workers_running, wjob, wrec, current_job, records >>

\* mutant of TempOutput: ffmpeg writes to the destination itself
TempOutput_Direct(out) == out

\* job.output_path.with_suffix(f".tmp{job.output_path.suffix}")
TempOutput(out) == MkPath(out.dir, out.stem, Append(out.sfx, "tmp"), out.ext)

\* TranscodeEngine.transcode up to the start of the ffmpeg process; fs keeps
\* the sources and the destinations, the temporary outputs are in engine
TranscodeBegin(w) ==
    LET p == jobs[wjob[w]].input_path IN
    /\ wpc[w] = "engine"
    /\ Alive(w)
    /\ IF p \in fs
       THEN /\ current_job' = [current_job EXCEPT ![w] =
                                 [@ EXCEPT !.status = "running", !.start_time = Now,
                                           !.original_size = SizeOf(p)]]
            /\ wpc' = [wpc EXCEPT ![w] = "ffmpeg"]
            /\ UNCHANGED success
       ELSE \* stat raises; the engine's except clause
            /\ current_job' = [current_job EXCEPT ![w] =
                                 [@ EXCEPT !.status = "failed", !.start_time = Now,
                                           !.error_message = "No such file",
                                           !.end_time = Now]]
            /\ success' = [success EXCEPT ![w] = FALSE]
            /\ wpc' = [wpc EXCEPT ![w] = "result"]
    /\ UNCHANGED << config, fs, handlers, monitor_running, scan,
                    processed_files, processing_files, tasks, job_queue, jobs,
                    hist, workers_running, wjob, wrec, records >>

TranscodeStart(w) == TranscodeBegin(w) /\ UNCHANGED aux

\* TranscodeEngine.transcode from the exit of the ffmpeg process: the
\* temporary output replaces the destination, or is unlinked
TranscodeExit(w, returncode) ==
    LET out == jobs[wjob[w]].output_path IN
    /\ wpc[w] = "ffmpeg"
    /\ Alive(w)
    /\ IF returncode = 0
       THEN /\ fs' = fs \cup {out}
            /\ current_job' = [current_job EXCEPT ![w] =
                                 [@ EXCEPT !.status = "completed", !.end_time = Now,
                                           !.final_size = SizeOf(out)]]
            /\ success' = [success EXCEPT ![w] = TRUE]
            /\ hist' = [hist EXCEPT ![wjob[w]].engine_ok = TRUE]
       ELSE /\ current_job' = [current_job EXCEPT ![w] =
                                 [@ EXCEPT !.status = "failed",
                                           !.error_message = "FFmpeg failed"]]
            /\ success' = [success EXCEPT ![w] = FALSE]
            /\ UNCHANGED << fs, hist >>
    /\ wpc' = [wpc EXCEPT ![w] = "result"]
    /\ UNCHANGED << config, handlers, monitor_running, scan, processed_files,
                    processing_files, tasks, job_queue, jobs, workers_running,
                    wjob, wrec, records >>

TranscodeEnd(w) ==
    \E returncode \in {0, 1} : TranscodeExit(w, returncode) /\ UNCHANGED aux

\* MediaFileHandler.mark_processed
MarkProcessed(h, p) ==
    /\ processing_files' = [processing_files EXCEPT ![h] = @ \ {p}]
    /\ processed_files' = [processed_files EXCEPT ![h] = @ \cup {p}]

\* _process_job: update_record commits the outcome of the engine, or raises
\* into the except clause
ProcessJobResult(w) ==
    LET cj == current_job[w]
        profile == jobs[wjob[w]].profile
    IN
    /\ wpc[w] = "result"
    /\ Alive(w)
    /\ success' = [success EXCEPT ![w] = FALSE]
    /\ \E raises \in Raises :
        IF raises
        THEN /\ store_faults' = store_faults - 1
             /\ exc' = [exc EXCEPT ![w] = StoreError]
             /\ wpc' = [wpc EXCEPT ![w] = "except"]
             /\ UNCHANGED << records, wjob, wrec, current_job >>
        ELSE IF success[w]
        THEN /\ records' = UpdateRecord(records, wrec[w],
                             [status |-> "completed",
                              completed_at |-> Now,
                              original_size |-> cj.original_size,
                              final_size |-> cj.final_size,
                              processing_time |-> GetDuration(cj),
                              hardware_accel_used |-> profile.hardware_accel])
             /\ wpc' = [wpc EXCEPT ![w] = "mark"]
             /\ UNCHANGED << store_faults, exc, wjob, wrec, current_job >>
        ELSE /\ records' = UpdateRecord(records, wrec[w],
                             [status |-> "failed",
                              completed_at |-> Now,
                              error_message |-> cj.error_message,
                              processing_time |-> GetDuration(cj)])
             /\ wpc' = [wpc EXCEPT ![w] = LoopTest(w)]
             /\ wjob' = [wjob EXCEPT ![w] = 0]
             /\ wrec' = [wrec EXCEPT ![w] = 0]
             /\ current_job' = [current_job EXCEPT ![w] = NoTranscodeJob]
             /\ UNCHANGED << store_faults, exc >>
    /\ UNCHANGED << bridge, wrun, wtask, polled, svc, config, fs, handlers,
                    monitor_running, scan, processed_files, processing_files,
                    tasks, job_queue, jobs, hist, workers_running >>

\* _process_job: FileMonitor.mark_job_processed(job_data), then the finally
\* clause, or the entry of the except clause if it raises
ProcessJobMark(w) ==
    LET j == wjob[w]
        p == jobs[j].input_path
        h == MatchingHandler(p)
        wf == jobs[j].watch_folder
    IN
    /\ wpc[w] = "mark"
    /\ Alive(w)
    /\ IF h # 0
       THEN MarkProcessed(h, p)
       ELSE UNCHANGED << processed_files, processing_files >>
    /\ IF wf = 0
       THEN \* watch_folder is None: AttributeError on delete_original
            /\ wpc' = [wpc EXCEPT ![w] = "except"]
            /\ exc' = [exc EXCEPT ![w] = "AttributeError"]
            /\ hist' = [hist EXCEPT ![j].notified = IF h # 0 THEN @ \cup {h} ELSE @]
            /\ UNCHANGED << fs, wjob, wrec, current_job >>
       ELSE /\ IF ShouldDelete(Folder(wf), p, fs)
                THEN /\ fs' = fs \ {p}
                     /\ hist' = [hist EXCEPT
                                   ![j].notified = IF h # 0 THEN @ \cup {h} ELSE @,
                                   ![j].deleted = TRUE]
                ELSE /\ fs' = fs
                     /\ hist' = [hist EXCEPT
                                   ![j].notified = IF h # 0 THEN @ \cup {h} ELSE @]
            /\ wpc' = [wpc EXCEPT ![w] = LoopTest(w)]
            /\ wjob' = [wjob EXCEPT ![w] = 0]
            /\ wrec' = [wrec EXCEPT ![w] = 0]
            /\ current_job' = [current_job EXCEPT ![w] = NoTranscodeJob]
            /\ UNCHANGED exc
    /\ UNCHANGED << bridge, store_faults, wrun, wtask, polled, svc, config,
                    handlers, monitor_running, scan, tasks, job_queue, jobs,
                    workers_running, success, records >>

\* mutant of ExceptUpdates: the status is committed without the other columns
ExceptUpdates_StatusOnly(e) == [status |-> "failed"]

\* the columns the except clause of _process_job updates in one commit
ExceptUpdates(e) ==
    [status |-> "failed", completed_at |-> Now, error_message |-> e]

\* _process_job: the except clause commits "failed" with str(e), then the
\* finally clause; if update_record raises, the finally clause and the loop
\* of start()
ProcessJobExcept(w) ==
    /\ wpc[w] = "except"
    /\ Alive(w)
    /\ \E raises \in Raises :
        IF raises
        THEN /\ store_faults' = store_faults - 1
             /\ wpc' = [wpc EXCEPT ![w] = AfterFault]
             /\ UNCHANGED records
        ELSE /\ records' = UpdateRecord(records, wrec[w], ExceptUpdates(exc[w]))
             /\ wpc' = [wpc EXCEPT ![w] = LoopTest(w)]
             /\ UNCHANGED store_faults
    /\ exc' = [exc EXCEPT ![w] = None]
    /\ wjob' = [wjob EXCEPT ![w] = 0]
    /\ wrec' = [wrec EXCEPT ![w] = 0]
    /\ current_job' = [current_job EXCEPT ![w] = NoTranscodeJob]
    /\ UNCHANGED << bridge, wrun, wtask, polled, svc, config, fs, handlers,
                    monitor_running, scan, processed_files, processing_files,
                    tasks, job_queue, jobs, hist, workers_running, success >>

\* start(): the sleep after an error is over, back to the loop test
Backoff(w) ==
    /\ wpc[w] = "backoff"
    /\ Alive(w)
    /\ wpc' = [wpc EXCEPT ![w] = LoopTest(w)]
    /\ UNCHANGED << aux, config, fs, handlers, monitor_running, scan,
                    processed_files, processing_files, tasks, job_queue, jobs,
                    hist, workers_running, wjob, wrec, current_job, success,
                    records >>

(***************************************************************************)
(* Shutdown.  task.cancel() makes the next step of the task raise          *)
(* CancelledError at the await the task is suspended in.  CancelledError   *)
(* is a BaseException: no except Exception clause catches it, in           *)
(* transcode, in _process_job or in start(); only the finally clause of    *)
(* _process_job runs, and the task ends.                                   *)
(***************************************************************************)
\* mutant of CancelAll: the tasks are not cancelled
CancelAll_None(t) == t

\* WorkerManager.stop: task.cancel() for every worker task
CancelAll(t) == [w \in Workers |-> IF t[w] = "live" THEN "cancelling" ELSE t[w]]

\* mutant of AllEnded: the worker tasks are not waited for
AllEnded_NoWait(pc) == TRUE

\* WorkerManager.stop: what asyncio.gather of the worker tasks waits for
AllEnded(pc) == \A w \in Workers : pc[w] = "ended"

\* RecodeXService.stop -> WorkerManager.stop up to its await of gather:
\* worker.stop() sets running = False for every worker, then the tasks are
\* cancelled
StopBegin ==
    /\ workers_running
    /\ svc = "idle"
    /\ wrun' = [w \in Workers |-> FALSE]
    /\ wtask' = CancelAll(wtask)
    /\ svc' = "gather"
    /\ UNCHANGED << bridge, store_faults, polled, exc, config, fs, handlers,
                    monitor_running, scan, processed_files, processing_files,
                    tasks, job_queue, jobs, hist, workers_running, wpc, wjob,
                    wrec, current_job, success, records >>

\* the task of worker w takes the CancelledError
Cancelled(w) ==
    /\ wtask[w] = "cancelling"
    /\ wpc[w] # "ended"
    /\ wtask' = [wtask EXCEPT ![w] = "cancelled"]
    /\ wpc' = [wpc EXCEPT ![w] = "ended"]
    /\ exc' = [exc EXCEPT ![w] = None]
    /\ wjob' = [wjob EXCEPT ![w] = 0]
    /\ wrec' = [wrec EXCEPT ![w] = 0]
    /\ current_job' = [current_job EXCEPT ![w] = NoTranscodeJob]
    /\ success' = [success EXCEPT ![w] = FALSE]
    /\ UNCHANGED << bridge, store_faults, wrun, polled, svc, config, fs,
                    handlers, monitor_running, scan, processed_files,
                    processing_files, tasks, job_queue, jobs, hist,
                    workers_running, records >>

\* RecodeXService.stop from the return of gather to the await of
\* engine.dispose(): WorkerManager.running = False, then FileMonitor.stop
GatherDone ==
    /\ svc = "gather"
    /\ AllEnded(wpc)
    /\ workers_running' = FALSE
    /\ handlers' = << >>
    /\ monitor_running' = FALSE
    /\ svc' = "closing"
    /\ UNCHANGED << bridge, store_faults, wrun, wtask, polled, exc, config, fs,
                    scan, processed_files, processing_files, tasks, job_queue,
                    jobs, hist, wpc, wjob, wrec, current_job, success, records >>

\* DatabaseManager.close: the engine is disposed, RecodeXService.running = False
StoreClose ==
    /\ svc = "closing"
    /\ svc' = "down"
    /\ UNCHANGED << bridge, store_faults, wrun, wtask, polled, exc, config, fs,
                    handlers, monitor_running, scan, processed_files,
                    processing_files, tasks, job_queue, jobs, hist,
                    workers_running, wpc, wjob, wrec, current_job, success,
                    records >>

(***************************************************************************)
(* Manual submission.                                                      *)
(***************************************************************************)
ManualPaths == {FileX, FileGone}

\* the profile names callers pass: a table key, a display name, a stranger
ManualRefs == ProfileRefs \cup {"Balanced"}

\* the output path add_manual_job generates
ManualOutputPath(p, profile) ==
    MkPath(p.dir, p.stem, SuffixedStem(p.sfx, profile), DotExt(profile.container))

\* mutant of ManualError: a missing input file is not looked for
ManualError_NoExistsTest(p, profile_name) ==
    IF ProfilesGet(profile_name) = NoProfile THEN "ValueError" ELSE None

\* what add_manual_job raises: ValueError for a profile name that is no key
\* of the table, FileNotFoundError for an input path that does not exist
ManualError(p, profile_name) ==
    IF ProfilesGet(profile_name) = NoProfile THEN "ValueError"
    ELSE IF p \notin fs THEN "FileNotFoundError"
    ELSE None

\* FileMonitor.add_manual_job(p, profile_name), no output path given
ManualJob(p, profile_name) ==
    LET profile == ProfilesGet(profile_name) IN
    /\ workers_running
    /\ svc = "idle"
    /\ Len(jobs) < MaxJobs
    /\ IF ManualError(p, profile_name) # None
       THEN UNCHANGED << job_queue, jobs, hist >>
       ELSE /\ jobs' = Append(jobs, NewJob(p, ManualOutputPath(p, profile), profile, 0))
            /\ hist' = Append(hist, NewHist)
            /\ job_queue' = QueuePut(job_queue, Len(jobs'))
    /\ UNCHANGED << config, fs, handlers, monitor_running, scan,
                    processed_files, processing_files, tasks,
                    workers_running, wpc, wjob, wrec, current_job, success,
                    records >>

\* RecodeXService.add_manual_job -> FileMonitor.add_manual_job
AddManualJob ==
    \E p \in ManualPaths, profile_name \in ManualRefs :
        ManualJob(p, profile_name) /\ UNCHANGED aux

\* manual before any call
NoManual ==
    [called |-> FALSE, input_path |-> FileGone, profile_name |-> None,
     error |-> None, job |-> 0]

\* add_manual_job as its caller sees it: the job dict returned, or the error
SubmitManualJob ==
    \E p \in ManualPaths, profile_name \in ManualRefs :
        /\ ManualJob(p, profile_name)
        /\ manual' = [called |-> TRUE, input_path |-> p,
                      profile_name |-> profile_name,
                      error |-> ManualError(p, profile_name),
                      job |-> IF jobs' # jobs THEN Len(jobs') ELSE 0]
        /\ UNCHANGED << response, wait, lookup, callback, store_faults, wrun,
                        wtask, polled, exc, svc, stats, engine >>

\* a float as the fraction it stands for, << numerator, denominator >>;
\* no float at all (None)
NoRatio == << 0, 0 >>

\* stats before any call: op names the call, the other fields hold what it
\* returned
NoStats ==
    [op |-> None, id |-> 0,
     ratio |-> NoRatio, saved |-> NoSize,
     job_ratio |-> NoRatio, job_saved |-> NoSize,
     total_processed |-> 0, total_space_saved |-> 0,
     average_compression_ratio |-> NoRatio,
     by_profile |-> [n \in {} |-> [count |-> 0, space_saved |-> 0]]]

\* engine before any call: temps, the temporary outputs on disk; wrote, per
\* worker, the paths its transcode call has written, replaced or unlinked
NoEngine == [temps |-> {}, wrote |-> [w \in Workers |-> {}]]

\* no call has been observed
UnitsIdle ==
    /\ manual = NoManual
    /\ stats = NoStats
    /\ engine = NoEngine

(***************************************************************************)
(* The engine and the disk: the temporary outputs of the transcode calls,  *)
(* and the events the observers deliver for what the engine writes.        *)
(***************************************************************************)
\* transcode up to the start of ffmpeg, which creates the temporary output
EngineStart(w) ==
    LET p == jobs[wjob[w]].input_path
        temp_output == TempOutput(jobs[wjob[w]].output_path)
    IN
    /\ TranscodeBegin(w)
    /\ engine' = IF p \in fs
                 THEN [temps |-> engine.temps \cup {temp_output},
                       wrote |-> [engine.wrote EXCEPT ![w] = {temp_output}]]
                 ELSE [engine EXCEPT !.wrote[w] = {}]
    /\ UNCHANGED << response, wait, lookup, callback, store_faults, wrun,
                    wtask, polled, exc, svc, manual, stats >>

\* transcode from the exit of ffmpeg: temp_output.replace(job.output_path) on
\* return code 0, temp_output.unlink() otherwise
EngineEnd(w) ==
    LET out == jobs[wjob[w]].output_path
        temp_output == TempOutput(out)
    IN
    \E returncode \in {0, 1} :
        /\ TranscodeExit(w, returncode)
        /\ engine' = [temps |-> engine.temps \ {temp_output},
                      wrote |-> [engine.wrote EXCEPT ![w] =
                                    IF returncode = 0
                                    THEN @ \cup {temp_output, out}
                                    ELSE @ \cup {temp_output}]]
        /\ UNCHANGED << response, wait, lookup, callback, store_faults, wrun,
                        wtask, polled, exc, svc, manual, stats >>

\* on_created for a temporary output that ffmpeg has created in the folder
\* of handler h
TempCreated ==
    \E h \in HandlerIds, ctx \in Contexts :
        \E p \in {q \in engine.temps : InScope(Folder(h), q)} :
            HandleEvent(h, [is_directory |-> FALSE, path |-> p], ctx)

\* on_moved for a destination that a temporary output has replaced
OutputMoved ==
    \E h \in HandlerIds, ctx \in Contexts :
        \E j \in DOMAIN jobs :
            /\ hist[j].engine_ok
            /\ jobs[j].output_path \in fs
            /\ InScope(Folder(h), jobs[j].output_path)
            /\ HandleEvent(h, [is_directory |-> FALSE, path |-> jobs[j].output_path], ctx)

(***************************************************************************)
(* The store as the presentation layer uses it: the status listings and    *)
(* reprocess.  response is what the last such call returned or raised:     *)
(* rows for a listing, new_job for reprocess, error for a ValueError.      *)
(***************************************************************************)
Statuses == {"pending", "running", "completed", "failed"}

NoRow == [id |-> 0, input_path |-> None, output_path |-> None,
          profile_name |-> None, status |-> None]

NoResponse ==
    [op |-> None, id |-> 0, status |-> None, error |-> None,
     new_job |-> NoRow, rows |-> << >>]

\* a record as a caller sees it: the identity and the fields that name the job
Row(recs, id) ==
    [id |-> id, input_path |-> recs[id].input_path,
     output_path |-> recs[id].output_path,
     profile_name |-> recs[id].profile_name, status |-> recs[id].status]

\* mutant of FindRecord: an unknown id falls back to the latest row
FindRecord_Latest(recs, id) == IF id \in DOMAIN recs THEN id ELSE Len(recs)

\* select(TranscodeRecord).where(TranscodeRecord.id == record_id), 0 for no row
FindRecord(recs, id) == IF id \in DOMAIN recs THEN id ELSE 0

\* mutant of CanReprocess: only a running record is refused
CanReprocess_NotRunning(r) == r.status # "running"

\* only terminal records can be reprocessed
CanReprocess(r) == r.status \in {"completed", "failed"}

\* the record reprocess persists: same source, destination and profile
ReprocessRecord(r) ==
    [input_path |-> r.input_path,
     output_path |-> r.output_path,
     profile_name |-> r.profile_name,
     status |-> "pending",
     created_at |-> Now,
     started_at |-> None,
     completed_at |-> None,
     error_message |-> None,
     original_size |-> NoSize,
     final_size |-> NoSize,
     processing_time |-> None,
     hardware_accel_used |-> FALSE,
     job |-> 0]

\* mutant of HasStatus: the pending listing also shows what is running
HasStatus_Active(r, status) ==
    r.status = status \/ (status = "pending" /\ r.status = "running")

\* the row filter of a status listing
HasStatus(r, status) == r.status = status

\* the ids of the rows a status listing selects, in id order
RECURSIVE SelectIds(_, _, _)
SelectIds(recs, status, i) ==
    IF i > Len(recs) THEN << >>
    ELSE (IF HasStatus(recs[i], status) THEN << i >> ELSE << >>)
         \o SelectIds(recs, status, i + 1)

\* get_pending_jobs / get_completed_jobs / get_failed_jobs
ListByStatus(recs, status) ==
    LET ids == SelectIds(recs, status, 1)
    IN  [k \in 1 .. Len(ids) |-> Row(recs, ids[k])]

\* DatabaseManager.reprocess_job(job_id)
ReprocessJob(id) ==
    LET found == FindRecord(records, id) IN
    /\ IF found = 0
       THEN /\ response' = [NoResponse EXCEPT !.op = "reprocess", !.id = id,
                                              !.error = "not found"]
            /\ UNCHANGED records
       ELSE IF ~CanReprocess(records[found])
       THEN /\ response' = [NoResponse EXCEPT !.op = "reprocess", !.id = id,
                                              !.error = "cannot be reprocessed"]
            /\ UNCHANGED records
       ELSE /\ Len(records) < MaxRecords
            /\ records' = AddRecord(records, ReprocessRecord(records[found]))
            /\ response' = [NoResponse EXCEPT !.op = "reprocess", !.id = id,
                                              !.new_job = Row(records', Len(records'))]
    /\ UNCHANGED << life, wait, lookup, config, fs, handlers, monitor_running, scan,
                    processed_files, processing_files, tasks, job_queue, jobs,
                    hist, workers_running, wpc, wjob, wrec, current_job, success >>

\* what a status listing answers
ListResponse(status) ==
    [NoResponse EXCEPT !.op = "list", !.status = status,
                       !.rows = ListByStatus(records, status)]

\* DatabaseManager.get_pending_jobs()
GetPendingJobs ==
    /\ response' = ListResponse("pending")
    /\ UNCHANGED << life, wait, lookup, config, fs, handlers, monitor_running, scan,
                    processed_files, processing_files, tasks, job_queue, jobs,
                    hist, workers_running, wpc, wjob, wrec, current_job, success,
                    records >>

\* DatabaseManager.get_completed_jobs()
GetCompletedJobs ==
    /\ response' = ListResponse("completed")
    /\ UNCHANGED << life, wait, lookup, config, fs, handlers, monitor_running, scan,
                    processed_files, processing_files, tasks, job_queue, jobs,
                    hist, workers_running, wpc, wjob, wrec, current_job, success,
                    records >>

\* DatabaseManager.get_failed_jobs()
GetFailedJobs ==
    /\ response' = ListResponse("failed")
    /\ UNCHANGED << life, wait, lookup, config, fs, handlers, monitor_running, scan,
                    processed_files, processing_files, tasks, job_queue, jobs,
                    hist, workers_running, wpc, wjob, wrec, current_job, success,
                    records >>

\* the records a client of the store adds directly
ClientRecords ==
    {[ReprocessRecord([input_path |-> p,
                       output_path |-> ManualOutputPath(p, Profiles.balanced),
                       profile_name |-> "Balanced"]) EXCEPT !.status = s] :
        p \in {FileX, FileY}, s \in Statuses}

\* add_record called on the store by a client
StoreAddRecord ==
    \E r \in ClientRecords :
        /\ Len(records) < MaxRecords
        /\ records' = AddRecord(records, r)
        /\ UNCHANGED << aux, config, fs, handlers, monitor_running, scan,
                        processed_files, processing_files, tasks, job_queue, jobs,
                        hist, workers_running, wpc, wjob, wrec, current_job,
                        success >>

\* update_record(id, status=...) called on the store by a client
StoreUpdateRecord ==
    \E id \in 1 .. MaxRecords + 1, s \in Statuses :
        /\ records' = UpdateRecord(records, id, [status |-> s])
        /\ UNCHANGED << aux, config, fs, handlers, monitor_running, scan,
                        processed_files, processing_files, tasks, job_queue, jobs,
                        hist, workers_running, wpc, wjob, wrec, current_job,
                        success >>

(***************************************************************************)
(* Sizes and statistics.  A size column is an integer or NULL (NoSize); a  *)
(* float is kept as the exact fraction it stands for.  stats holds what    *)
(* the last call returned.                                                 *)
(***************************************************************************)
MaxRows == 2

RECURSIVE GCD(_, _)
GCD(a, b) == IF b = 0 THEN a ELSE GCD(b, a % b)

\* a fraction in lowest terms
Norm(q) ==
    LET g == GCD(q[1], q[2]) IN
    IF g = 0 THEN q ELSE << q[1] \div g, q[2] \div g >>

\* original / final
Div(original, final) == Norm(<< original, final >>)

RAdd(a, b) == Norm(<< a[1] * b[2] + b[1] * a[2], a[2] * b[2] >>)

\* "if self.original_size": neither None nor 0
Truthy(size) == size # NoSize /\ size # 0

\* max(0, n)
Max0(n) == IF n > 0 THEN n ELSE 0

\* mutant of CompressionRatio: final over original
CompressionRatio_Inverse(r) ==
    IF Truthy(r.original_size) /\ Truthy(r.final_size) /\ r.final_size > 0
    THEN Div(r.final_size, r.original_size)
    ELSE NoRatio

\* TranscodeRecord.compression_ratio, TranscodeJob.get_compression_ratio
CompressionRatio(r) ==
    IF Truthy(r.original_size) /\ Truthy(r.final_size) /\ r.final_size > 0
    THEN Div(r.original_size, r.final_size)
    ELSE NoRatio

\* TranscodeRecord.space_saved, TranscodeJob.get_space_saved
SpaceSaved(r) ==
    IF Truthy(r.original_size) /\ Truthy(r.final_size)
    THEN Max0(r.original_size - r.final_size)
    ELSE NoSize

\* sum(F[id] for id in ids)
RECURSIVE Sum(_, _)
Sum(ids, F) ==
    IF ids = {} THEN 0
    ELSE LET id == CHOOSE x \in ids : TRUE IN F[id] + Sum(ids \ {id}, F)

\* WHERE status = 'completed'
Completed(recs) == {id \in DOMAIN recs : recs[id].status = "completed"}

\* ... AND original_size IS NOT NULL AND final_size IS NOT NULL
Sized(recs) ==
    {id \in Completed(recs) :
        recs[id].original_size # NoSize /\ recs[id].final_size # NoSize}

\* Statistics.get_total_processed
TotalProcessed(recs) == Cardinality(Completed(recs))

\* Statistics.get_total_space_saved
TotalSpaceSaved(recs) ==
    LET Saved == [id \in DOMAIN recs |-> recs[id].original_size - recs[id].final_size] IN
    Sum({id \in Sized(recs) : recs[id].original_size > recs[id].final_size}, Saved)

\* the rows get_average_compression_ratio selects
RatioRows(recs) == {id \in Sized(recs) : recs[id].final_size > 0}

\* sum(ratios)
RECURSIVE SumRatios(_, _)
SumRatios(recs, ids) ==
    IF ids = {} THEN << 0, 1 >>
    ELSE LET id == CHOOSE x \in ids : TRUE IN
         RAdd(Div(recs[id].original_size, recs[id].final_size),
              SumRatios(recs, ids \ {id}))

\* mutant of AverageCompressionRatio: total original size over total final size
AverageCompressionRatio_OfTotals(recs) ==
    LET Original == [id \in DOMAIN recs |-> recs[id].original_size]
        Final == [id \in DOMAIN recs |-> recs[id].final_size]
    IN  IF RatioRows(recs) = {} THEN << 0, 1 >>
        ELSE Div(Sum(RatioRows(recs), Original), Sum(RatioRows(recs), Final))

\* Statistics.get_average_compression_ratio
AverageCompressionRatio(recs) ==
    IF RatioRows(recs) = {} THEN << 0, 1 >>
    ELSE LET total == SumRatios(recs, RatioRows(recs)) IN
         Norm(<< total[1], total[2] * Cardinality(RatioRows(recs)) >>)

\* Statistics.get_statistics_by_profile: one entry per profile name that has
\* a selected row
StatisticsByProfile(recs) ==
    LET Rows(n) == {id \in Sized(recs) : recs[id].profile_name = n}
        Saved == [id \in DOMAIN recs |-> recs[id].original_size - recs[id].final_size]
    IN  [n \in {recs[id].profile_name : id \in Sized(recs)} |->
            [count |-> Cardinality(Rows(n)), space_saved |-> Sum(Rows(n), Saved)]]

\* the values of a size column
StatSizes == {NoSize, 0, 1, 3}

\* the rows of the table the statistics are taken over
StatRows ==
    {[ReprocessRecord([input_path |-> FileX,
                       output_path |-> ManualOutputPath(FileX, Profiles.balanced),
                       profile_name |-> n])
        EXCEPT !.status = s, !.original_size = o, !.final_size = f] :
        n \in {"Balanced", "Small File"}, s \in {"completed", "failed"},
        o \in StatSizes, f \in StatSizes}

StatTables == UNION {[1 .. n -> StatRows] : n \in 0 .. MaxRows}

\* RecodeXService.get_statistics
GetStatistics ==
    /\ stats' = [NoStats EXCEPT
                    !.op = "get_statistics",
                    !.total_processed = TotalProcessed(records),
                    !.total_space_saved = TotalSpaceSaved(records),
                    !.average_compression_ratio = AverageCompressionRatio(records),
                    !.by_profile = StatisticsByProfile(records)]
    /\ UNCHANGED << response, wait, lookup, callback, store_faults, wrun,
                    wtask, polled, exc, svc, manual, engine, config, fs,
                    handlers, monitor_running, scan, processed_files,
                    processing_files, tasks, job_queue, jobs, hist,
                    workers_running, wpc, wjob, wrec, current_job, success,
                    records >>

\* the size properties of record id, and of a TranscodeJob of the same sizes
ReadSizes(id) ==
    LET job == [NoTranscodeJob EXCEPT
                    !.original_size = records[id].original_size,
                    !.final_size = records[id].final_size]
    IN
    /\ id \in DOMAIN records
    /\ stats' = [NoStats EXCEPT
                    !.op = "sizes", !.id = id,
                    !.ratio = CompressionRatio(records[id]),
                    !.saved = SpaceSaved(records[id]),
                    !.job_ratio = CompressionRatio(job),
                    !.job_saved = SpaceSaved(job)]
    /\ UNCHANGED << response, wait, lookup, callback, store_faults, wrun,
                    wtask, polled, exc, svc, manual, engine, config, fs,
                    handlers, monitor_running, scan, processed_files,
                    processing_files, tasks, job_queue, jobs, hist,
                    workers_running, wpc, wjob, wrec, current_job, success,
                    records >>

(***************************************************************************)
(* One _process_new_file call seen from inside: _wait_for_file_ready       *)
(* sample by sample, the profile lookup, and the rest of the call.  wait   *)
(* is the frame of _wait_for_file_ready; seen, the observations of the     *)
(* last samples, is kept for the properties only.                          *)
(***************************************************************************)
\* the default of the parameter timeout, and the stable samples asked for
Timeout == 30
StableSamples == 3

\* what one sample observes: exists() is False, exists() or stat() raises
\* OSError, or st_size
Sizes == {0, 500, 1000}

Observations ==
    {[kind |-> "missing", size |-> NoSize], [kind |-> "error", size |-> NoSize]}
    \cup {[kind |-> "size", size |-> n] : n \in Sizes}

NoWait ==
    [state |-> "none", h |-> 0, i |-> 0, previous_size |-> 0, stable_count |-> 0,
     seen |-> << >>]

\* the frame on entry: previous_size = 0, stable_count = 0
WaitEntry(h) == [NoWait EXCEPT !.state = "polling", !.h = h]

\* the observations of the last StableSamples samples
Remember(seen, o) ==
    LET all == Append(seen, o)
    IN  IF Len(all) > StableSamples THEN Tail(all) ELSE all

\* mutant of WaitIteration: an OSError of a sample is not caught
WaitIteration_Raise(f, o) ==
    LET g == [f EXCEPT !.i = @ + 1, !.seen = Remember(@, o)] IN
    IF o.kind = "error"
    THEN [g EXCEPT !.state = "raised"]
    ELSE IF o.kind = "missing"
    THEN g
    ELSE IF o.size = f.previous_size /\ o.size > 0
    THEN IF f.stable_count + 1 >= StableSamples
         THEN [g EXCEPT !.stable_count = @ + 1, !.state = "ready"]
         ELSE [g EXCEPT !.stable_count = @ + 1]
    ELSE [g EXCEPT !.stable_count = 0, !.previous_size = o.size]

\* one iteration of the loop of _wait_for_file_ready
WaitIteration(f, o) ==
    LET g == [f EXCEPT !.i = @ + 1, !.seen = Remember(@, o)] IN
    IF o.kind = "missing" \/ o.kind = "error"
    THEN g
    ELSE IF o.size = f.previous_size /\ o.size > 0
    THEN IF f.stable_count + 1 >= StableSamples
         THEN [g EXCEPT !.stable_count = @ + 1, !.state = "ready"]
         ELSE [g EXCEPT !.stable_count = @ + 1]
    ELSE [g EXCEPT !.stable_count = 0, !.previous_size = o.size]

\* the call that is looked at: the handler of /a/b on /a/b/y.MP4
WaitHandler == 2
WaitPath == FileY

\* a sample is taken, after the sleep that follows the one before
WaitSample ==
    \E o \in Observations :
        /\ wait.state = "polling"
        /\ wait.i < Timeout
        /\ wait' = WaitIteration(wait, o)
        /\ UNCHANGED << life, response, lookup, config, fs, handlers, monitor_running,
                        scan, processed_files, processing_files, tasks,
                        job_queue, jobs, hist, workers_running, wpc, wjob, wrec,
                        current_job, success, records >>

\* the loop ends without a return: the warning is logged
WaitExhausted ==
    /\ wait.state = "polling"
    /\ wait.i >= Timeout
    /\ wait' = [wait EXCEPT !.state = "timeout"]
    /\ UNCHANGED << life, response, lookup, config, fs, handlers, monitor_running,
                    scan, processed_files, processing_files, tasks, job_queue,
                    jobs, hist, workers_running, wpc, wjob, wrec, current_job,
                    success, records >>

\* the profile references a watch folder may carry
LookupRefs == ProfileRefs \cup {"Balanced", "BALANCED"}

NoLookup == [ref |-> None, profile |-> NoProfile, probe |-> None]

\* _wait_for_file_ready has returned None: _process_new_file goes on to its
\* end; lookup keeps what line 63 looked up and got and what ffprobe told
\* line 70, as far as the call got
WaitReturn ==
    LET wf == Folder(wait.h)
        profile == ProfilesGet(wf.profile)
    IN
    /\ wait.state \in {"ready", "timeout"}
    /\ \E probe \in Probes :
        /\ FinishNewFileWith(wait.h, WaitPath, probe)
        /\ lookup' = IF IsAlreadyProcessed(wf, WaitPath, fs) THEN lookup
                     ELSE [ref |-> wf.profile, profile |-> profile,
                           probe |-> IF profile = NoProfile THEN None ELSE probe]
    /\ wait' = [wait EXCEPT !.state = "returned"]
    /\ UNCHANGED << life, response, config, fs, handlers, monitor_running,
                    scan, tasks, workers_running, wpc, wjob, wrec, current_job,
                    success, records >>

\* the state around the call: a started monitor whose scan found nothing to do
HandlerInit ==
    /\ config \in [profile2 : LookupRefs, dry_run : {FALSE}]
    /\ fs \in {{WaitPath}, {WaitPath, GetOutputPath(WatchFolders(config)[WaitHandler],
                                                     WaitPath, Profiles.balanced)}}
    /\ handlers = << 1, 2 >>
    /\ monitor_running = TRUE
    /\ scan = [state |-> "done", idx |-> 0]
    /\ processed_files = [h \in HandlerIds |-> {}]
    /\ processing_files = [h \in HandlerIds |-> {}]
    /\ tasks = EmptyBag
    /\ job_queue = << >>
    /\ jobs = << >>
    /\ hist = << >>
    /\ workers_running = FALSE
    /\ wpc = [w \in Workers |-> "idle"]
    /\ wjob = [w \in Workers |-> 0]
    /\ wrec = [w \in Workers |-> 0]
    /\ current_job = [w \in Workers |-> NoTranscodeJob]
    /\ success = [w \in Workers |-> FALSE]
    /\ records = << >>
    /\ response = NoResponse
    /\ wait = WaitEntry(WaitHandler)
    /\ lookup = NoLookup
    /\ Constructed
    /\ UnitsIdle
    /\ store_faults = 0

HandlerNext ==
    \/ WaitSample
    \/ WaitExhausted
    \/ WaitReturn

HandlerSpec == HandlerInit /\ [][HandlerNext]_vars

\* a table of records and the statistics read from it, no service running
StatsInit ==
    /\ config = [profile2 |-> "balanced", dry_run |-> FALSE]
    /\ fs = Files
    /\ handlers = << >>
    /\ monitor_running = FALSE
    /\ scan = [state |-> "idle", idx |-> 0]
    /\ processed_files = [h \in HandlerIds |-> {}]
    /\ processing_files = [h \in HandlerIds |-> {}]
    /\ tasks = EmptyBag
    /\ job_queue = << >>
    /\ jobs = << >>
    /\ hist = << >>
    /\ workers_running = FALSE
    /\ wpc = [w \in Workers |-> "idle"]
    /\ wjob = [w \in Workers |-> 0]
    /\ wrec = [w \in Workers |-> 0]
    /\ current_job = [w \in Workers |-> NoTranscodeJob]
    /\ success = [w \in Workers |-> FALSE]
    /\ records \in StatTables
    /\ response = NoResponse
    /\ wait = NoWait
    /\ lookup = NoLookup
    /\ Constructed
    /\ UnitsIdle
    /\ store_faults = 0

StatsNext ==
    \/ GetStatistics
    \/ \E id \in 1 .. MaxRows : ReadSizes(id)

StatsSpec == StatsInit /\ [][StatsNext]_vars

\* the store on its own: a fresh database and its clients, no service running
StoreInit ==
    /\ config = [profile2 |-> "balanced", dry_run |-> FALSE]
    /\ fs = Files
    /\ handlers = << >>
    /\ monitor_running = FALSE
    /\ scan = [state |-> "idle", idx |-> 0]
    /\ processed_files = [h \in HandlerIds |-> {}]
    /\ processing_files = [h \in HandlerIds |-> {}]
    /\ tasks = EmptyBag
    /\ job_queue = << >>
    /\ jobs = << >>
    /\ hist = << >>
    /\ workers_running = FALSE
    /\ wpc = [w \in Workers |-> "idle"]
    /\ wjob = [w \in Workers |-> 0]
    /\ wrec = [w \in Workers |-> 0]
    /\ current_job = [w \in Workers |-> NoTranscodeJob]
    /\ success = [w \in Workers |-> FALSE]
    /\ records = << >>
    /\ response = NoResponse
    /\ wait = NoWait
    /\ lookup = NoLookup
    /\ Constructed
    /\ UnitsIdle
    /\ store_faults = 0

StoreNext ==
    \/ StoreAddRecord
    \/ StoreUpdateRecord
    \/ \E id \in 1 .. MaxRecords + 1 : ReprocessJob(id)
    \/ GetPendingJobs
    \/ GetCompletedJobs
    \/ GetFailedJobs

StoreSpec == StoreInit /\ [][StoreNext]_vars

(***************************************************************************)
(* The service.                                                            *)
(***************************************************************************)
OutX == MkPath(<<"a">>, "x", <<"Balanced">>, ".mp4")

InitialDisks == {Files, Files \cup {OutX}}

\* the service after construction, before RecodeXService.start
Unstarted ==
    /\ config \in Configs
    /\ fs \in InitialDisks
    /\ handlers = << >>
    /\ monitor_running = FALSE
    /\ scan = [state |-> "idle", idx |-> 0]
    /\ processed_files = [h \in HandlerIds |-> {}]
    /\ processing_files = [h \in HandlerIds |-> {}]
    /\ tasks = EmptyBag
    /\ job_queue = << >>
    /\ jobs = << >>
    /\ hist = << >>
    /\ workers_running = FALSE
    /\ wpc = [w \in Workers |-> "idle"]
    /\ wjob = [w \in Workers |-> 0]
    /\ wrec = [w \in Workers |-> 0]
    /\ current_job = [w \in Workers |-> NoTranscodeJob]
    /\ success = [w \in Workers |-> FALSE]
    /\ records = << >>
    /\ response = NoResponse
    /\ wait = NoWait
    /\ lookup = NoLookup
    /\ Constructed
    /\ UnitsIdle

\* the service on a store whose operations do not raise
Init == Unstarted /\ store_faults = 0

Next ==
    \/ StartMonitor
    \/ ScanStep
    \/ OnCreated
    \/ OnMoved
    \/ TaskFinish
    \/ StartWorkers
    \/ AddManualJob
    \/ \E w \in Workers : GetJob(w)
    \/ \E w \in Workers : ProcessJobAdd(w)
    \/ \E w \in Workers : ProcessJobRun(w)
    \/ \E w \in Workers : ProcessJobDry(w)
    \/ \E w \in Workers : TranscodeStart(w)
    \/ \E w \in Workers : TranscodeEnd(w)
    \/ \E w \in Workers : ProcessJobResult(w)
    \/ \E w \in Workers : ProcessJobMark(w)
    \/ \E w \in Workers : ProcessJobExcept(w)

Spec == Init /\ [][Next]_vars

\* The worker pool at work on what the scan and manual submissions enqueue,
\* while the presentation layer reprocesses records.
PoolNext ==
    \/ StartMonitor
    \/ ScanStep
    \/ StartWorkers
    \/ AddManualJob
    \/ \E w \in Workers : GetJob(w)
    \/ \E w \in Workers : ProcessJobAdd(w)
    \/ \E w \in Workers : ProcessJobRun(w)
    \/ \E w \in Workers : ProcessJobDry(w)
    \/ \E w \in Workers : TranscodeStart(w)
    \/ \E w \in Workers : TranscodeEnd(w)
    \/ \E w \in Workers : ProcessJobResult(w)
    \/ \E w \in Workers : ProcessJobMark(w)
    \/ \E w \in Workers : ProcessJobExcept(w)
    \/ \E id \in 1 .. MaxRecords + 1 : ReprocessJob(id)

PoolSpec == Init /\ [][PoolNext]_vars

\* The service from its start to the end of its stop, on a store of which
\* up to MaxFaults operations raise.
LifeInit == Unstarted /\ store_faults = MaxFaults

LifeNext ==
    \/ StartMonitor
    \/ ScanStep
    \/ StartWorkers
    \/ AddManualJob
    \/ \E w \in Workers : GetJob(w)
    \/ \E w \in Workers : EmptyPoll(w)
    \/ \E w \in Workers : ProcessJobAdd(w)
    \/ \E w \in Workers : ProcessJobRun(w)
    \/ \E w \in Workers : ProcessJobDry(w)
    \/ \E w \in Workers : TranscodeStart(w)
    \/ \E w \in Workers : TranscodeEnd(w)
    \/ \E w \in Workers : ProcessJobResult(w)
    \/ \E w \in Workers : ProcessJobMark(w)
    \/ \E w \in Workers : ProcessJobExcept(w)
    \/ \E w \in Workers : Backoff(w)
    \/ StopBegin
    \/ \E w \in Workers : Cancelled(w)
    \/ GatherDone
    \/ StoreClose

LifeSpec == LifeInit /\ [][LifeNext]_vars

\* one step of worker w's task: its loop in start() and _process_job
WorkerStep(w) ==
    \/ GetJob(w)
    \/ EmptyPoll(w)
    \/ ProcessJobAdd(w)
    \/ ProcessJobRun(w)
    \/ ProcessJobDry(w)
    \/ TranscodeStart(w)
    \/ TranscodeEnd(w)
    \/ ProcessJobResult(w)
    \/ ProcessJobMark(w)
    \/ ProcessJobExcept(w)
    \/ Backoff(w)

\* The service left running: the scan and manual submissions enqueue, the
\* workers are started and never stopped.
LiveNext ==
    \/ StartMonitor
    \/ ScanStep
    \/ StartWorkers
    \/ AddManualJob
    \/ \E w \in Workers : WorkerStep(w)

\* RecodeXService.start runs the start-up scan, whose waits end within their
\* budget, and then starts the workers; the event loop resumes every worker
\* task that can take a step; ffmpeg exits and every await returns.
LiveFairness ==
    /\ WF_vars(StartMonitor)
    /\ WF_vars(ScanStep)
    /\ WF_vars(StartWorkers)
    /\ \A w \in Workers : WF_vars(WorkerStep(w))

LiveSpec == LifeInit /\ [][LiveNext]_vars /\ LiveFairness

\* The service while the observers report what the engine writes: the scan
\* and manual submissions enqueue the sources.
EngineNext ==
    \/ StartMonitor
    \/ ScanStep
    \/ TempCreated
    \/ OutputMoved
    \/ TaskFinish
    \/ StartWorkers
    \/ AddManualJob
    \/ \E w \in Workers : GetJob(w)
    \/ \E w \in Workers : ProcessJobAdd(w)
    \/ \E w \in Workers : ProcessJobRun(w)
    \/ \E w \in Workers : ProcessJobDry(w)
    \/ \E w \in Workers : EngineStart(w)
    \/ \E w \in Workers : EngineEnd(w)
    \/ \E w \in Workers : ProcessJobResult(w)
    \/ \E w \in Workers : ProcessJobMark(w)
    \/ \E w \in Workers : ProcessJobExcept(w)

EngineSpec == Init /\ [][EngineNext]_vars

\* The watchers while the observer delivers events, what each callback did
\* kept in callback.
CreatedCallback ==
    \E h \in HandlerIds, ctx \in Contexts :
        \E event \in Events(h) :
            /\ Dispatch(h, event, ctx)
            /\ callback' = CallbackOutcome("on_created", event, ctx)
            /\ UNCHANGED << response, wait, lookup, store_faults, wrun, wtask,
                            polled, exc, svc, units >>

MovedCallback ==
    \E h \in HandlerIds, ctx \in Contexts :
        \E event \in Events(h) :
            /\ Dispatch(h, event, ctx)
            /\ callback' = CallbackOutcome("on_moved", event, ctx)
            /\ UNCHANGED << response, wait, lookup, store_faults, wrun, wtask,
                            polled, exc, svc, units >>

BridgeNext ==
    \/ StartMonitor
    \/ ScanStep
    \/ CreatedCallback
    \/ MovedCallback
    \/ TaskFinish

BridgeSpec == Init /\ [][BridgeNext]_vars

\* The pool at work while manual jobs are submitted, the outcome of each
\* submission kept in manual.
ManualNext ==
    \/ StartMonitor
    \/ ScanStep
    \/ StartWorkers
    \/ SubmitManualJob
    \/ \E w \in Workers : GetJob(w)
    \/ \E w \in Workers : ProcessJobAdd(w)
    \/ \E w \in Workers : ProcessJobRun(w)
    \/ \E w \in Workers : ProcessJobDry(w)
    \/ \E w \in Workers : TranscodeStart(w)
    \/ \E w \in Workers : TranscodeEnd(w)
    \/ \E w \in Workers : ProcessJobResult(w)
    \/ \E w \in Workers : ProcessJobMark(w)
    \/ \E w \in Workers : ProcessJobExcept(w)

ManualSpec == Init /\ [][ManualNext]_vars


(***************************************************************************)
(* Properties.                                                             *)
(***************************************************************************)
\* the records built from job dict j
RecordsOf(j) == {r \in DOMAIN records : records[r].job = j}

\* a worker is still executing _process_job for record r
Held(r) == \E w \in Workers : wrec[w] = r

InQueue(j) == \E i \in DOMAIN job_queue : job_queue[i] = j

C2_StatusMonotonic ==
    [][\A r \in DOMAIN records :
          records'[r].status # records[r].status
          => << records[r].status, records'[r].status >> \in
                { << "pending", "running" >>, << "running", "completed" >>,
                  << "running", "failed" >> }]_vars

\* C3: a job whose engine run reported success ends with its record
\* completed, carrying final size, duration and hardware-acceleration flag,
\* for watcher jobs and manual jobs alike.
C3_SuccessCompletes ==
    \A r \in DOMAIN records :
        hist[records[r].job].engine_ok /\ ~Held(r)
        => /\ records[r].status = "completed"
           /\ records[r].final_size # NoSize
           /\ records[r].processing_time # None
           /\ records[r].hardware_accel_used = jobs[records[r].job].profile.hardware_accel

C5_FailureClearsInFlight ==
    \A r \in DOMAIN records :
        LET j == jobs[records[r].job] IN
        records[r].status = "failed" /\ ~Held(r) /\ j.watch_folder # 0
        => j.input_path \notin processing_files[j.watch_folder]

\* C6: a job that ended in failure has not put its path into any watcher's
\* processed set.
C6_FailedNotProcessed ==
    \A r \in DOMAIN records :
        records[r].status = "failed" => hist[records[r].job].notified = {}

\* C7: when a watcher-originated job has completed, the watcher that enqueued
\* it, and no other, was told to move the path to processed, and the path is
\* in that watcher's processed set.
C7_OriginatorNotified ==
    \A r \in DOMAIN records :
        LET j == jobs[records[r].job] IN
        records[r].status = "completed" /\ ~Held(r) /\ j.watch_folder # 0
        => /\ hist[records[r].job].notified = {j.watch_folder}
           /\ j.input_path \in processed_files[j.watch_folder]

\* C8: a source file is deleted only for a job whose record is completed and
\* whose originating watch folder has delete_original set; a source file
\* that is gone was deleted by such a job.
C8_DeleteOnlyAfterCompleted ==
    /\ \A j \in DOMAIN jobs :
        hist[j].deleted
        => /\ jobs[j].watch_folder # 0
           /\ Folder(jobs[j].watch_folder).delete_original
           /\ \E r \in RecordsOf(j) : records[r].status = "completed"
    /\ \A p \in Files :
        p \notin fs => \E j \in DOMAIN jobs : hist[j].deleted /\ jobs[j].input_path = p

\* C8 witness: the source file of a completed job of the nested folder has
\* been deleted.
C8_Witness ==
    \E j \in DOMAIN jobs :
        /\ hist[j].deleted
        /\ jobs[j].input_path \notin fs
        /\ \E r \in RecordsOf(j) : records[r].status = "completed"

\* C9: a watcher whose profile reference resolves to no profile enqueues
\* nothing and leaves no path in its in-flight set.
C9_MissingProfileAborts ==
    \A h \in HandlerIds :
        ProfilesGet(Folder(h).profile) = NoProfile
        => /\ processing_files[h] = {}
           /\ \A j \in DOMAIN jobs : jobs[j].watch_folder # h

InProgress == {r \in DOMAIN records : records[r].status \in {"pending", "running"}}

ReprocessStep == response' # response /\ response'.op = "reprocess"

\* C12: reprocess(id) on a completed or failed record adds exactly one record:
\* pending, with a new id and the source path, destination path and profile
\* name of the original; it returns that record's id and fields, and every
\* record that existed, the original included, is unchanged.
C12_ReprocessClonesTerminal ==
    [][(/\ ReprocessStep
        /\ response'.id \in DOMAIN records
        /\ records[response'.id].status \in {"completed", "failed"})
       => LET old == records[response'.id]
              n == Len(records) + 1
          IN  /\ response'.error = None
              /\ DOMAIN records' = 1 .. n
              /\ \A r \in DOMAIN records : records'[r] = records[r]
              /\ records'[n].status = "pending"
              /\ records'[n].input_path = old.input_path
              /\ records'[n].output_path = old.output_path
              /\ records'[n].profile_name = old.profile_name
              /\ response'.new_job =
                    [id |-> n, input_path |-> old.input_path,
                     output_path |-> old.output_path,
                     profile_name |-> old.profile_name, status |-> "pending"]]_vars

\* C12 witness: a failed record has been reprocessed into a pending one.
C12_Witness ==
    /\ response.op = "reprocess"
    /\ response.error = None
    /\ response.id \in DOMAIN records
    /\ records[response.id].status = "failed"
    /\ response.new_job.id \in DOMAIN records
    /\ response.new_job.id # response.id
    /\ records[response.new_job.id].status = "pending"

\* C13: reprocess(id) on a pending or running record fails with the state
\* error and neither adds nor changes a record.
C13_ReprocessRefusesActive ==
    [][(/\ ReprocessStep
        /\ response'.id \in DOMAIN records
        /\ records[response'.id].status \in {"pending", "running"})
       => /\ response'.error = "cannot be reprocessed"
          /\ response'.new_job = NoRow
          /\ records' = records]_vars

\* C13 witness: reprocess of a running record was refused.
C13_Witness ==
    /\ response.op = "reprocess"
    /\ response.error = "cannot be reprocessed"
    /\ response.id \in DOMAIN records
    /\ records[response.id].status = "running"

\* C14: reprocess(id) with an id no record has fails with the identity error
\* and leaves the store unchanged.
C14_ReprocessUnknownId ==
    [][(ReprocessStep /\ response'.id \notin DOMAIN records)
       => /\ response'.error = "not found"
          /\ response'.new_job = NoRow
          /\ records' = records]_vars

\* C14 witness: reprocess of an unknown id failed on a store that has
\* terminal records.
C14_Witness ==
    /\ response.op = "reprocess"
    /\ response.error = "not found"
    /\ response.id \notin DOMAIN records
    /\ \E r \in DOMAIN records : records[r].status \in {"completed", "failed"}

\* C15: a status listing returns one row for each record whose status is the
\* one asked for and no other row, whatever add_record, update_record and
\* reprocess did before; listing changes no record.
C15_ListingsExact ==
    [][(response' # response /\ response'.op = "list")
       => LET rows == response'.rows
              st == response'.status
          IN  /\ records' = records
              /\ \A r \in DOMAIN records :
                    records[r].status = st
                    <=> \E k \in DOMAIN rows : rows[k].id = r
              /\ \A k \in DOMAIN rows :
                    /\ rows[k].id \in DOMAIN records
                    /\ rows[k] = Row(records, rows[k].id)
                    /\ rows[k].status = st
              /\ \A k1, k2 \in DOMAIN rows : k1 # k2 => rows[k1].id # rows[k2].id]_vars

\* C15 witness: the pending listing shows the one pending record and leaves
\* out a running and a completed one.
C15_Witness ==
    /\ response.op = "list"
    /\ response.status = "pending"
    /\ Len(response.rows) = 1
    /\ Len(records) = 3
    /\ response.rows[1].id = 3
    /\ records[3].status = "pending"
    /\ records[1].status = "completed"
    /\ records[2].status = "running"

\* the profile a reference names: by table key or by display name
Named(ref) ==
    {Profiles[k] : k \in {k \in DOMAIN Profiles : k = ref \/ Profiles[k].name = ref}}

\* C16: the lookup of a watch folder's profile reference returns the profile
\* whose table key or display name equals the reference, case-sensitively,
\* and no profile when there is none.
C16_LookupByKeyOrName ==
    lookup.ref # None
    => IF Named(lookup.ref) = {} THEN lookup.profile = NoProfile
       ELSE lookup.profile \in Named(lookup.ref)

\* C17: _wait_for_file_ready returns before its budget is used up only when
\* the last 3 samples all observed the same non-zero size; a sample among
\* them that found the file missing, unreadable, empty or of another size
\* rules the return out.
C17_ReadyOnlyWhenStable ==
    wait.state = "ready"
    => /\ Len(wait.seen) = StableSamples
       /\ \A k \in DOMAIN wait.seen :
            /\ wait.seen[k].kind = "size"
            /\ wait.seen[k].size > 0
            /\ wait.seen[k].size = wait.seen[1].size

\* C18: _wait_for_file_ready never raises and takes at most Timeout samples;
\* a sample that finds the path missing or fails to read it leaves the frame
\* as it was and polling goes on; and the caller goes on with the path
\* whether the wait ended ready or by exhausting the budget.
C18_WaitBoundedNeverRaises ==
    /\ [](/\ wait.state \in {"polling", "ready", "timeout", "returned"}
          /\ wait.i <= Timeout
          /\ (wait.state = "timeout" => wait.i = Timeout)
          /\ (wait.state = "polling" /\ wait.i = Timeout => ENABLED WaitExhausted)
          /\ (wait.state \in {"ready", "timeout"} => ENABLED WaitReturn)
          /\ (wait.state = "returned"
              => WaitPath \in processed_files[wait.h] \cup processing_files[wait.h]))
    /\ [][(/\ wait'.i = wait.i + 1
           /\ wait'.seen[Len(wait'.seen)].kind \in {"missing", "error"})
          => /\ wait'.state = "polling"
             /\ wait'.previous_size = wait.previous_size
             /\ wait'.stable_count = wait.stable_count]_vars

\* C18 witness: the budget was used up on a file that never settled, with
\* samples that found it missing or unreadable, and the caller enqueued it.
C18_Witness ==
    /\ wait.state = "returned"
    /\ wait.i = Timeout
    /\ wait.stable_count < StableSamples
    /\ \E k \in DOMAIN wait.seen : wait.seen[k].kind = "error"
    /\ \E k \in DOMAIN wait.seen : wait.seen[k].kind = "missing"
    /\ Len(jobs) = 1
    /\ jobs[1].input_path = WaitPath

\* the destination the watcher h computes for p, with the folder's profile
Destination(h, p) == GetOutputPath(Folder(h), p, ProfilesGet(Folder(h).profile))

\* the destination of p is computable by watcher h and exists on disk
DestinationExists(h, p) ==
    /\ ProfilesGet(Folder(h).profile) # NoProfile
    /\ Destination(h, p) \in fs

\* a _process_new_file call of watcher h for p ends in this step
CallEnds(h, p) ==
    \/ /\ scan.state = "waiting"
       /\ scan' # scan
       /\ ScanList[scan.idx] = << h, p >>
    \/ CopiesIn(Task(h, p), tasks') < CopiesIn(Task(h, p), tasks)

\* C19: a call of the watcher that finds the destination of its file on disk
\* marks the file processed and enqueues nothing; and the watcher never
\* enqueues a job whose destination is on disk at that moment.
C19_ExistingDestinationSkips ==
    [][/\ \A h \in HandlerIds, p \in Files :
            (CallEnds(h, p) /\ DestinationExists(h, p))
            => /\ p \in processed_files'[h]
               /\ jobs' = jobs
               /\ job_queue' = job_queue
       /\ \A j \in DOMAIN jobs' \ DOMAIN jobs :
            jobs'[j].watch_folder # 0 => jobs'[j].output_path \notin fs]_vars

\* C19 witness: /a/x.mp4, whose destination was on disk from the start, is
\* processed for its watcher and no job was ever built for it.
C19_Witness ==
    /\ DestinationExists(1, FileX)
    /\ FileX \in processed_files[1]
    /\ \A j \in DOMAIN jobs : jobs[j].input_path # FileX

\* C20: when needs_transcoding answers no, or its probe fails, the call
\* returns normally, no job is enqueued, and the path is in the processed
\* set and not in the in-flight set.
C20_NoNeedMarksProcessed ==
    (wait.state = "returned" /\ lookup.probe \in {"matches", "error"})
    => /\ jobs = << >>
       /\ job_queue = << >>
       /\ WaitPath \in processed_files[wait.h]
       /\ WaitPath \notin processing_files[wait.h]

\* C20 witness: the probe failed and the path was marked processed.
C20_Witness ==
    /\ wait.state = "returned"
    /\ lookup.probe = "error"
    /\ WaitPath \in processed_files[wait.h]

\* C21: whenever a watcher enqueues a JobRequest for a path, the path is in
\* that watcher's in-flight set: in every step that appends a watcher's job
\* to the queue the path of the job is, at the end of the step that put it,
\* a member of processing_files of the watcher that built it.
C21_InFlightBeforeEnqueue ==
    [][\A i \in DOMAIN job_queue' :
          (~InQueue(job_queue'[i]) /\ jobs'[job_queue'[i]].watch_folder # 0)
          => jobs'[job_queue'[i]].input_path
                \in processing_files'[jobs'[job_queue'[i]].watch_folder]]_vars

\* a watcher's job is queued and its path is in that watcher's in-flight set
C21_Witness ==
    \E i \in DOMAIN job_queue :
        /\ jobs[job_queue[i]].watch_folder # 0
        /\ jobs[job_queue[i]].input_path
              \in processing_files[jobs[job_queue[i]].watch_folder]

\* C22: a worker first persists the record of a dequeued job in status
\* pending, and only afterwards moves it to running with a start timestamp:
\* every record enters the table as pending, a record becomes running only
\* from pending and then carries started_at, and while a worker is in the
\* dry run or in the transcoding engine its record is running and started.
C22_PendingThenRunning ==
    /\ [](\A w \in Workers :
            wpc[w] \in {"dry", "engine", "ffmpeg"}
            => /\ wrec[w] \in DOMAIN records
               /\ records[wrec[w]].status = "running"
               /\ records[wrec[w]].started_at # None)
    /\ [][\A r \in DOMAIN records' :
            /\ r \notin DOMAIN records => records'[r].status = "pending"
            /\ (r \in DOMAIN records /\ records[r].status # "running"
                  /\ records'[r].status = "running")
               => /\ records[r].status = "pending"
                  /\ records[r].started_at = None
                  /\ records'[r].started_at # None]_vars

\* the engine runs ffmpeg for a job whose record is running and started
C22_Witness ==
    \E w \in Workers :
        /\ wpc[w] = "ffmpeg"
        /\ records[wrec[w]].status = "running"
        /\ records[wrec[w]].started_at # None
        /\ records[wrec[w]].job = wjob[w]

\* C23: whenever a record transitions to failed, by the engine's report or
\* by an exception raised during the execution, the record carries both the
\* error message and the processing duration.
C23_FailedCarriesMessageAndDuration ==
    [][\A r \in DOMAIN records :
          (records[r].status # "failed" /\ records'[r].status = "failed")
          => /\ records'[r].error_message # None
             /\ records'[r].processing_time # None]_vars

\* C26: JobRequests are dequeued in exactly the order in which they were
\* enqueued, whoever produced them: job dicts are numbered in the order of
\* their enqueue, and whenever a job is dequeued, every job enqueued before
\* it, by a watcher or by a manual submission, has been dequeued already.
C26_DequeueInEnqueueOrder ==
    [][\A j \in DOMAIN hist :
          hist'[j].dequeues > hist[j].dequeues
          => /\ \A i \in 1 .. (j - 1) : hist[i].dequeues >= 1
             /\ \A k \in DOMAIN job_queue' : job_queue'[k] > j]_vars

\* a watcher's job and a manual submission have both been dequeued, and a
\* manual one was enqueued before a watcher's
C26_Witness ==
    \E i, j \in DOMAIN jobs :
        /\ i < j
        /\ jobs[i].watch_folder = 0
        /\ jobs[j].watch_folder # 0
        /\ hist[i].dequeues >= 1
        /\ hist[j].dequeues >= 1

\* C24: no error raised while a worker dequeues or processes a job ends the
\* worker's loop: while its stop flag is unset the worker has not left the
\* loop, and from the backoff that follows an error it goes back to the
\* dequeue.
C24_FaultsDoNotEndLoop ==
    /\ [](\A w \in Workers : wrun[w] => wpc[w] # "ended")
    /\ [][\A w \in Workers :
            (wrun[w] /\ wrun'[w] /\ wpc[w] = "backoff" /\ wpc'[w] # "backoff")
            => wpc'[w] = "idle"]_vars

\* a worker backs off after an operation of the store raised, its loop alive
C24_Witness ==
    \E w \in Workers :
        /\ wpc[w] = "backoff"
        /\ wrun[w]
        /\ wtask[w] = "live"
        /\ store_faults < MaxFaults

\* C25: if an exception is raised in a worker's execution of a job after the
\* record exists, the record ends failed with the exception's message and is
\* never left pending or running: whenever a worker lets go of a record the
\* record is completed or failed, and failed with the message of the
\* exception if one was caught.
C25_ExceptionEndsFailed ==
    [][\A w \in Workers :
          (wrec[w] # 0 /\ wrec'[w] = 0)
          => /\ records'[wrec[w]].status \in {"completed", "failed"}
             /\ exc[w] # None
                => /\ records'[wrec[w]].status = "failed"
                   /\ records'[wrec[w]].error_message = exc[w]]_vars

\* C27: a dequeue on the empty queue returns nothing and removes or loses no
\* JobRequest, and a worker whose stop flag is set starts no further job: an
\* idle worker's next step after the flag is set ends its loop.
C27_EmptyPollAndStopFlag ==
    /\ [][\A w \in Workers :
            (~polled[w] /\ polled'[w])
            => /\ job_queue = << >>
               /\ job_queue' = job_queue
               /\ jobs' = jobs
               /\ hist' = hist
               /\ wjob'[w] = 0]_vars
    /\ [][\A w \in Workers :
            (~wrun[w] /\ wjob'[w] # wjob[w]) => wjob'[w] = 0]_vars
    /\ [][\A w \in Workers :
            (~wrun[w] /\ wtask[w] # "none" /\ wpc[w] = "idle"
               /\ << wpc[w], polled[w], wjob[w] >>' # << wpc[w], polled[w], wjob[w] >>)
            => wpc'[w] = "ended"]_vars

\* a worker that polled the empty queue has left its loop after the stop
\* flag was set, and a job is still queued
C27_Witness ==
    \E w \in Workers :
        /\ polled[w]
        /\ ~wrun[w]
        /\ wpc[w] = "ended"
        /\ job_queue # << >>

\* C28: the service stops in a fixed order: the workers are signalled and
\* their loops ended first, then the watchers are stopped, and only then the
\* store is closed; no record is written once the store is closed.
C28_StopOrder ==
    /\ [](svc = "gather" => monitor_running /\ \A w \in Workers : ~wrun[w])
    /\ [](svc \in {"closing", "down"}
            => /\ \A w \in Workers : wpc[w] = "ended"
               /\ ~monitor_running
               /\ handlers = << >>)
    /\ [][svc' # svc
            => << svc, svc' >> \in {<< "idle", "gather" >>, << "gather", "closing" >>,
                                   << "closing", "down" >>}]_vars
    /\ [][svc = "down" => records' = records]_vars

\* the store is closed after workers wrote records to it
C28_Witness ==
    /\ svc = "down"
    /\ records # << >>
    /\ \A w \in Workers : wpc[w] = "ended"

\* C29: when the service is stopped while a worker executes a job, the
\* transcoding finishes naturally: once the service is down no record is
\* left in status running.
C29_StopLeavesNoRunning ==
    svc = "down" => \A r \in DOMAIN records : records[r].status # "running"

\* C30: every on_created / on_moved call for a file on the notification
\* thread hands its work over by a thread-safe submission with a completion
\* callback attached, and does not raise on that thread.
C30_CallbackHandsOff ==
    (callback.name # None /\ callback.ctx = "thread" /\ ~callback.is_directory)
    => /\ callback.threadsafe
       /\ callback.done_callback
       /\ ~callback.raised

\* C39: in dry-run mode nothing is done to the files: no worker is ever in
\* the transcoding engine and no source file is deleted, even under a watch
\* folder with delete_original set.
C39_DryRunTouchesNothing ==
    config.dry_run
    => /\ \A w \in Workers : wpc[w] \notin {"engine", "ffmpeg"}
       /\ \A j \in DOMAIN hist : ~hist[j].engine_ok /\ ~hist[j].deleted
       /\ Files \subseteq fs

\* C37: a reader of the store never observes a partially applied update: in
\* every state a running record has a start timestamp, a completed record
\* has start and completion timestamps, and a failed record has a completion
\* timestamp and an error message.
C37_NoPartialUpdate ==
    \A r \in DOMAIN records :
        /\ records[r].status = "running" => records[r].started_at # None
        /\ records[r].status = "completed"
           => records[r].started_at # None /\ records[r].completed_at # None
        /\ records[r].status = "failed"
           => records[r].completed_at # None /\ records[r].error_message # None

\* the except clause of _process_job has committed a failure, and another
\* record is completed
C37_Witness ==
    \E r, q \in DOMAIN records :
        /\ records[r].status = "failed"
        /\ records[r].error_message \in {"AttributeError", StoreError}
        /\ records[r].completed_at # None
        /\ records[q].status = "completed"
        /\ records[q].started_at # None

\* C34: add_manual_job with a profile name that resolves to no profile (it
\* is no table key and no display name), or with an input path that does
\* not exist, raises and enqueues nothing; otherwise it puts exactly one job
\* dict with no watch folder at the end of the shared queue; in both cases
\* the dedup sets of the watchers are left as they were.
C34_ManualJobOutcome ==
    [][manual' # manual
        => /\ processed_files' = processed_files
           /\ processing_files' = processing_files
           /\ IF \/ Named(manual'.profile_name) = {}
                 \/ manual'.input_path \notin fs
              THEN /\ manual'.error # None
                   /\ manual'.job = 0
                   /\ job_queue' = job_queue
                   /\ jobs' = jobs
              ELSE /\ manual'.error = None
                   /\ jobs' = Append(jobs, jobs'[Len(jobs')])
                   /\ manual'.job = Len(jobs')
                   /\ job_queue' = Append(job_queue, manual'.job)
                   /\ jobs'[manual'.job].watch_folder = 0
                   /\ jobs'[manual'.job].input_path = manual'.input_path
                   /\ jobs'[manual'.job].profile
                        \in Named(manual'.profile_name)]_vars

\* job j has left the queue and its record has reached a terminal status
Settled(j) ==
    /\ ~InQueue(j)
    /\ \E r \in RecordsOf(j) : records[r].status \in {"completed", "failed"}

\* C35: with the workers running and every engine invocation ending, every
\* JobRequest that is enqueued is eventually dequeued and its record
\* eventually reaches completed or failed.
C35_EveryJobSettles ==
    \A j \in 1 .. MaxJobs : (j \in DOMAIN jobs) ~> Settled(j)

\* C32: compression ratio and space saved, of a record and of a TranscodeJob,
\* are None whenever the final size is zero or either size is missing; a
\* ratio that is defined equals original / final, and space saved that is
\* defined equals max(0, original - final), so it is never negative.
C32_SizesUndefinedOrExact ==
    stats.op = "sizes"
    => LET original == records[stats.id].original_size
           final == records[stats.id].final_size
           Exact(ratio, saved) ==
               /\ (final = 0 \/ original = NoSize \/ final = NoSize)
                    => ratio = NoRatio /\ saved = NoSize
               /\ ratio # NoRatio
                    => ratio[2] > 0 /\ ratio[1] * final = original * ratio[2]
               /\ saved # NoSize
                    => /\ saved >= 0
                       /\ saved = IF original > final THEN original - final ELSE 0
       IN  /\ Exact(stats.ratio, stats.saved)
           /\ Exact(stats.job_ratio, stats.job_saved)

\* a record smaller before than after: ratio 1/3, space saved clamped to 0
C32_Witness ==
    /\ stats.op = "sizes"
    /\ records[stats.id].original_size = 1
    /\ records[stats.id].final_size = 3
    /\ stats.ratio = << 1, 3 >>
    /\ stats.saved = 0
    /\ stats.job_ratio = << 1, 3 >>
    /\ stats.job_saved = 0

\* the product of F over ids
RECURSIVE Product(_, _)
Product(ids, F) ==
    IF ids = {} THEN 1
    ELSE LET id == CHOOSE x \in ids : TRUE IN F[id] * Product(ids \ {id}, F)

\* C33: the average compression ratio is the arithmetic mean of original/final
\* over exactly the completed records with both sizes present and a final
\* size above zero, and 0 when there is none: with n such records and P the
\* product of their final sizes, average * n * P = sum of original * P / final.
C33_AverageIsMeanOfRatios ==
    stats.op = "get_statistics"
    => LET ids == {id \in DOMAIN records :
                      /\ records[id].status = "completed"
                      /\ records[id].original_size # NoSize
                      /\ records[id].final_size # NoSize
                      /\ records[id].final_size > 0}
           final == [id \in DOMAIN records |-> records[id].final_size]
           P == Product(ids, final)
           scaled == [id \in DOMAIN records |->
                        IF id \in ids
                        THEN records[id].original_size * (P \div final[id])
                        ELSE 0]
           average == stats.average_compression_ratio
       IN  IF ids = {} THEN average = << 0, 1 >>
           ELSE /\ average[2] > 0
                /\ average[1] * Cardinality(ids) * P = average[2] * Sum(ids, scaled)

\* ratios 3 and 1/3 average to 5/3, while total original over total final
\* is 1
C33_Witness ==
    /\ stats.op = "get_statistics"
    /\ stats.average_compression_ratio = << 5, 3 >>
    /\ \E a, b \in DOMAIN records :
          /\ records[a].original_size = 3 /\ records[a].final_size = 1
          /\ records[b].original_size = 1 /\ records[b].final_size = 3

\* C38: the per-profile counts sum to the total completed count, and the
\* per-profile space-saved values sum to the total space saved.
C38_BreakdownMatchesTotals ==
    stats.op = "get_statistics"
    => LET names == DOMAIN stats.by_profile
           count == [n \in names |-> stats.by_profile[n].count]
           saved == [n \in names |-> stats.by_profile[n].space_saved]
       IN  /\ Sum(names, count) = stats.total_processed
           /\ Sum(names, saved) = stats.total_space_saved

\* C31: a transcode call that returns False, by a non-zero exit of ffmpeg or
\* by an exception, has not written, replaced or unlinked its destination:
\* what it wrote is at most its temporary output, a path other than the
\* destination.
C31_FailureLeavesDestination ==
    \A w \in Workers :
        wpc[w] = "result" /\ ~success[w]
        => /\ jobs[wjob[w]].output_path \notin engine.wrote[w]
           /\ engine.wrote[w] \subseteq {TempOutput(jobs[wjob[w]].output_path)}

\* ffmpeg has exited with a non-zero code for a job whose destination was
\* on disk before: the temporary output was written and unlinked
C31_Witness ==
    \E w \in Workers :
        /\ wpc[w] = "result"
        /\ ~success[w]
        /\ current_job[w].error_message = "FFmpeg failed"
        /\ jobs[wjob[w]].output_path \in fs
        /\ engine.wrote[w] = {TempOutput(jobs[wjob[w]].output_path)}
        /\ TempOutput(jobs[wjob[w]].output_path) \notin engine.temps

\* the paths the engine writes for job i: its temporary output and its
\* destination
WrittenFor(i) == {jobs[i].output_path, TempOutput(jobs[i].output_path)}

====
